---- MODULE Spec2Model ----
(***************************************************************************)
(* A model of the asynchronous content-analysis pipeline of tadabbur-api:  *)
(* the ai_processing_queue job table, the dispatcher                       *)
(* (QueueService.addAIAnalysisJob, inline and broker mode), the job runner *)
(* (Gemma3Service.processContent), the in-process single-flight queue      *)
(* (generateAnalysisWithQueue / processQueue / clearQueue), the tiered     *)
(* model client (Gemma3Service.generateAnalysis falling back to            *)
(* AIService.generateAnalysis) and the draft route (POST /analyze-draft).  *)
(*                                                                         *)
(* JavaScript runs each handler to its next await without interleaving, so *)
(* one action is one such segment: from a resumption to the next await.    *)
(* Confidence values are held in tenths (8 stands for 0.8).                *)
(***************************************************************************)
EXTENDS Integers, Sequences, FiniteSets, TLC

\* ------------------------------------------------------------------ bounds

\* generateAnalysisWithQueue calls made over a run
MaxRequests == 3
\* Gemma3Service.clearQueue calls made over a run
MaxClears == 1
\* rows ever inserted into ai_processing_queue
MaxRows == 2
\* dispatches (addAIAnalysisJob calls / broker jobs) over a run
MaxTasks == 2
\* POST /analyze-draft requests over a run
MaxDrafts == 2
\* clock steps per cool-down period
TicksPerCoolDown == 1
\* queued requests and drafts of the model-client specification
MaxClientRequests == 1
MaxClientDrafts == 1
\* dispatches of the job-route specification
MaxRouteTasks == 1
\* braces and brackets in a text given to the balance repair alone
MaxNest == 4
\* generateAnalysisWithQueue calls of the queue's fair specification
MaxFairRequests == 2
\* rows inserted and processQueue runs that can overlap, in the poller's
\* specification
MaxPollerRows == 3
MaxPollerRuns == 2

\* ------------------------------------------------------- program constants

\* the delay of setTimeout(() => this.processQueue(), 1000)
CoolDownMs == 1000
\* bull's attempts: 3
MaxAttempts == 3
\* confidence of every non-placeholder parser branch (0.8), in tenths
ParsedConfidence == 8
\* confidence of the parser's last-resort record (0.0), in tenths
PlaceholderConfidence == 0
\* confidence of generateLocalFallbackAnalysis (0.6), in tenths
LocalConfidence == 6

\* the minimum lengths of generateLocalFallbackAnalysis
MinTitle == 5
MinArabic == 10
MinMeaning == 20
MinBlogBody == 100

TickMs == CoolDownMs \div TicksPerCoolDown

Min(a, b) == IF a < b THEN a ELSE b
Max(a, b) == IF a > b THEN a ELSE b

\* --------------------------------------------------------------- alphabets

ReqIds == 1 .. MaxRequests
TaskIds == 1 .. MaxTasks
DraftIds == 1 .. MaxDrafts

\* two of the content kinds of the schema's CHECK and the routes' whitelist
Kinds == {"dua", "blog"}
\* (content_type, content_id) keys used by the runs
Keys == {<<"dua", 1>>, <<"blog", 1>>}

\* The classes of text a remote model can answer with:
\*   structured - JSON with analysis, corrections and summary
\*   simple     - JSON object lacking one of the three keys
\*   truncated  - a {...} span that is not JSON but decodes once the missing
\*                closers are appended, to an object with the three keys
\*   garbled    - a {...} span that is not JSON and stays so after repair
\*   plain      - text with no {...} span at all
\*   empty      - the empty string
\*   nullitem   - JSON with the three keys whose corrections array holds a
\*                null: it decodes, and reading correction.field throws
Bodies ==
  {"structured", "simple", "truncated", "garbled", "plain", "empty",
   "nullitem"}

\* Outcomes of the first remote call (client.chat.completions.create)
Tier1Errors == {"e503", "timeout", "other"}
Tier1Outcomes ==
  {[ok |-> TRUE, body |-> b, err |-> "none"] : b \in Bodies}
    \cup {[ok |-> FALSE, body |-> "none", err |-> e] : e \in Tier1Errors}

\* Outcomes of the second remote call (axios.post)
Tier2Outcomes ==
  {[ok |-> TRUE, body |-> b, err |-> "none"] : b \in Bodies}
    \cup {[ok |-> FALSE, body |-> "none", err |-> "fail"]}

Unavailable == "AI service temporarily unavailable"
QueueCleared == "Queue cleared"
ContentNotFound == "Content not found"
WriteBackFailed == "content write-back failed"

NoAnalysis == [tag |-> "none"]

\* ---------------------------------------------------------------- parsers

\* the keys of every object literal the parsers return
AnalysisKeys == {"summary", "corrections", "authenticity", "confidence"}

Record(branch, conf, by) ==
  [tag |-> "record", branch |-> branch, confidence |-> conf,
   source |-> "none", by |-> by, keys |-> AnalysisKeys]

\* the outcome of a block that threw
Thrown == [tag |-> "thrown"]

\* The try block of Gemma3Service.parseAIResponse: with a {...} span it
\* decodes it (JSON.parse throws on truncated and garbled text) and builds
\* the record (corrections.map throws on a null entry); with no span it
\* scans the lines
Gemma3TryBlock(body) ==
  CASE body = "structured" -> Record("structured", ParsedConfidence, "gemma3")
    [] body = "simple" -> Record("simple", ParsedConfidence, "gemma3")
    [] body \in {"plain", "empty"} -> Record("text", ParsedConfidence, "gemma3")
    [] OTHER -> Thrown

\* The try block inside its catch block: append the missing closers, decode
\* again and build the record; whatever throws here is caught (fixError)
\* and nothing is returned
Gemma3RepairBlock(body) ==
  IF body = "truncated"
  THEN Record("repaired", ParsedConfidence, "gemma3")
  ELSE NoAnalysis

\* a parser that lets the decode error escape instead of recovering
Gemma3ParseNoRecovery(body) == Gemma3TryBlock(body)

\* Gemma3Service.parseAIResponse on a string body: the try block, on its
\* throw the repair, and with no record from it the fixed record with
\* confidence 0.0.  Every path returns.
Gemma3ParseAIResponse(body) ==
  LET t == Gemma3TryBlock(body)
      r == Gemma3RepairBlock(body)
  IN IF t # Thrown THEN t
     ELSE IF r # NoAnalysis THEN r
     ELSE Record("placeholder", PlaceholderConfidence, "gemma3")

\* The inner try of AIService.parseAIResponse: decode the {...} span and
\* build the record; what it throws is caught (jsonError)
AIServiceJsonBlock(body) ==
  CASE body = "structured" -> Record("structured", ParsedConfidence, "aiService")
    [] body = "simple" -> Record("simple", ParsedConfidence, "aiService")
    [] OTHER -> NoAnalysis

\* a parser whose inner try lets its error escape to the caller
AIServiceParseNoRecovery(body) ==
  IF body \in {"truncated", "garbled", "nullitem"} THEN Thrown
  ELSE IF AIServiceJsonBlock(body) # NoAnalysis THEN AIServiceJsonBlock(body)
  ELSE Record("text", ParsedConfidence, "aiService")

\* AIService.parseAIResponse on a string body: the inner try, and with no
\* record from it the line scan; there is no balance repair.
AIServiceParseAIResponse(body) ==
  IF AIServiceJsonBlock(body) # NoAnalysis THEN AIServiceJsonBlock(body)
  ELSE Record("text", ParsedConfidence, "aiService")

\* generateLocalFallbackAnalysis of routes/ai.js
LocalFallback ==
  [tag |-> "record", branch |-> "local", confidence |-> LocalConfidence,
   source |-> "local_fallback", by |-> "local",
   keys |-> AnalysisKeys \cup {"source"}]

\* ------------------------------------------------------ text-level parsers

\* JSON values; numbers are held in tenths (8 stands for 0.8).  An object is
\* the sequence of its members in order, each <<key, value>>.
Str(s) == [t |-> "str", s |-> s]
Num(n) == [t |-> "num", n |-> n]
Null == [t |-> "null"]
Undefined == [t |-> "undefined"]
Arr(xs) == [t |-> "arr", xs |-> xs]
Obj(ms) == [t |-> "obj", ms |-> ms]

\* A text is a sequence of lexemes: the punctuation "{" "}" "[" "]" ",", a
\* newline "nl", a key with its colon, a scalar (a string, a number or null,
\* which is its own lexeme) and "word" for prose.  Strings hold no brace,
\* bracket or newline.
Tok(c) == [t |-> c]
KeyTok(k) == [t |-> "key", s |-> k]

\* JSON.stringify(v) with no indentation
RECURSIVE Stringify(_)
RECURSIVE StringifyMembers(_)
RECURSIVE StringifyElements(_)
Stringify(v) ==
  CASE v.t = "obj" -> <<Tok("{")>> \o StringifyMembers(v.ms) \o <<Tok("}")>>
    [] v.t = "arr" -> <<Tok("[")>> \o StringifyElements(v.xs) \o <<Tok("]")>>
    [] OTHER -> <<v>>

StringifyMembers(ms) ==
  IF Len(ms) = 0 THEN <<>>
  ELSE <<KeyTok(ms[1][1])>> \o Stringify(ms[1][2]) \o
       (IF Len(ms) = 1 THEN <<>>
        ELSE <<Tok(",")>> \o StringifyMembers(Tail(ms)))

StringifyElements(xs) ==
  IF Len(xs) = 0 THEN <<>>
  ELSE Stringify(xs[1]) \o
       (IF Len(xs) = 1 THEN <<>>
        ELSE <<Tok(",")>> \o StringifyElements(Tail(xs)))

\* the same text with a line break after every "{", "[" and ","
RECURSIVE Lines(_)
Lines(ts) ==
  IF Len(ts) = 0 THEN <<>>
  ELSE IF ts[1].t \in {"{", "[", ","}
       THEN <<ts[1], Tok("nl")>> \o Lines(Tail(ts))
       ELSE <<ts[1]>> \o Lines(Tail(ts))

\* what JSON.parse throws
SyntaxError == [t |-> "error"]

ParseFail == [ok |-> FALSE, v |-> Undefined, i |-> 0]

\* JSON.parse by recursive descent over the lexemes ts from index i on: the
\* value read and the index after it
RECURSIVE ParseValue(_, _)
RECURSIVE ParseMembers(_, _, _)
RECURSIVE ParseElements(_, _, _)
ParseValue(ts, i) ==
  IF i > Len(ts) THEN ParseFail
  ELSE CASE ts[i].t = "{" ->
              IF i < Len(ts) /\ ts[i + 1].t = "}"
              THEN [ok |-> TRUE, v |-> Obj(<<>>), i |-> i + 2]
              ELSE ParseMembers(ts, i + 1, <<>>)
         [] ts[i].t = "[" ->
              IF i < Len(ts) /\ ts[i + 1].t = "]"
              THEN [ok |-> TRUE, v |-> Arr(<<>>), i |-> i + 2]
              ELSE ParseElements(ts, i + 1, <<>>)
         [] ts[i].t \in {"str", "num", "null"} ->
              [ok |-> TRUE, v |-> ts[i], i |-> i + 1]
         [] OTHER -> ParseFail

\* the members of an object from index i on, ms those read before
ParseMembers(ts, i, ms) ==
  IF i > Len(ts) THEN ParseFail
  ELSE IF ts[i].t # "key" THEN ParseFail
  ELSE LET p == ParseValue(ts, i + 1)
       IN IF ~p.ok THEN ParseFail
          ELSE IF p.i > Len(ts) THEN ParseFail
          ELSE LET all == Append(ms, <<ts[i].s, p.v>>)
               IN CASE ts[p.i].t = "}" ->
                         [ok |-> TRUE, v |-> Obj(all), i |-> p.i + 1]
                    [] ts[p.i].t = "," -> ParseMembers(ts, p.i + 1, all)
                    [] OTHER -> ParseFail

\* the elements of an array from index i on, xs those read before
ParseElements(ts, i, xs) ==
  LET p == ParseValue(ts, i)
  IN IF ~p.ok THEN ParseFail
     ELSE IF p.i > Len(ts) THEN ParseFail
     ELSE LET all == Append(xs, p.v)
          IN CASE ts[p.i].t = "]" ->
                    [ok |-> TRUE, v |-> Arr(all), i |-> p.i + 1]
               [] ts[p.i].t = "," -> ParseElements(ts, p.i + 1, all)
               [] OTHER -> ParseFail

IsSolid(x) == x.t # "nl"

\* JSON.parse(text): white space is skipped and the whole text is one value
JSONParse(ts) ==
  LET solid == SelectSeq(ts, IsSolid)
      p == ParseValue(solid, 1)
  IN IF p.ok /\ p.i = Len(solid) + 1 THEN p.v ELSE SyntaxError

IndexesOf(ts, c) == {i \in 1 .. Len(ts) : ts[i].t = c}

MinOf(S) == CHOOSE x \in S : \A y \in S : x <= y
MaxOf(S) == CHOOSE x \in S : \A y \in S : x >= y

\* response.match(/\{[\s\S]*\}/): from the first "{" to the last "}" after
\* it; the empty sequence stands for no match
JsonMatch(ts) ==
  LET opens == IndexesOf(ts, "{")
      closes == IndexesOf(ts, "}")
  IN IF opens = {} THEN <<>>
     ELSE IF \A c \in closes : c < MinOf(opens) THEN <<>>
     ELSE SubSeq(ts, MinOf(opens), MaxOf(closes))

\* response.match(/\{[\s\S]*?(?=\n\s*$|\n\s*[^}]|$)/): from the first "{" to
\* the end, or lazily to the first line break after it that is not directly
\* followed by "}"
PartialMatch(ts) ==
  LET opens == IndexesOf(ts, "{")
      stops == {j \in IndexesOf(ts, "nl") :
                  /\ j > MinOf(opens)
                  /\ j = Len(ts) \/ ts[j + 1].t # "}"}
  IN IF opens = {} THEN <<>>
     ELSE IF stops = {} THEN SubSeq(ts, MinOf(opens), Len(ts))
     ELSE SubSeq(ts, MinOf(opens), MinOf(stops) - 1)

\* (text.match(/c/g) || []).length
Count(ts, c) == Cardinality(IndexesOf(ts, c))

\* n copies of the lexeme c; none when n is not positive
Repeat(c, n) == [i \in 1 .. n |-> Tok(c)]

\* The balance repair: append one "]" per unclosed "[", then one "}" per
\* unclosed "{"
BalanceRepair(ts) ==
  ts \o Repeat("]", Count(ts, "[") - Count(ts, "]"))
     \o Repeat("}", Count(ts, "{") - Count(ts, "}"))

\* obj[key]: undefined on a missing member and on a value that is no object
Get(v, k) ==
  IF v.t # "obj" THEN Undefined
  ELSE LET at == {i \in 1 .. Len(v.ms) : v.ms[i][1] = k}
       IN IF at = {} THEN Undefined ELSE v.ms[MaxOf(at)][2]

\* the values JavaScript takes for false
Falsy(v) ==
  \/ v.t \in {"undefined", "null"}
  \/ v.t = "num" /\ v.n = 0
  \/ v.t = "str" /\ v.s = ""

\* a || b
OrElse(a, b) == IF Falsy(a) THEN b ELSE a

\* an object literal returned by a parser
Analysis(branch, s, c, a, conf) ==
  [tag |-> "record", branch |-> branch, summary |-> s, corrections |-> c,
   authenticity |-> a, confidence |-> conf]

\* the test of the 'working example format'
HasThreeKeys(j) ==
  /\ ~Falsy(Get(j, "analysis"))
  /\ ~Falsy(Get(j, "corrections"))
  /\ ~Falsy(Get(j, "summary"))

\* typeof correction === 'object' holds of objects, arrays and null
TypeofObject(c) == c.t \in {"obj", "arr", "null"}

\* the arrow function of corrections.map
MapCorrection(c) ==
  IF TypeofObject(c)
  THEN Obj(<< <<"field", OrElse(Get(c, "field"), Str("unknown"))>>,
              <<"issue_english", OrElse(Get(c, "issue_english"), Str(""))>>,
              <<"issue_bangla", OrElse(Get(c, "issue_bangla"), Str(""))>>,
              <<"suggestion_english",
                OrElse(Get(c, "suggestion_english"), Str(""))>>,
              <<"suggestion_bangla",
                OrElse(Get(c, "suggestion_bangla"), Str(""))>> >>)
  ELSE c

\* reading correction.field of null throws a TypeError
MapThrows(j) ==
  LET c == Get(j, "corrections")
  IN c.t = "arr" /\ \E i \in 1 .. Len(c.xs) : c.xs[i].t = "null"

\* the record of the 'working example format' built from the object j
StructuredRecord(branch, j) ==
  LET s == Get(j, "summary")
      c == Get(j, "corrections")
  IN Analysis(branch,
       Obj(<< <<"english",
                OrElse(Get(s, "english"), Str("Summary not provided"))>>,
              <<"bangla",
                OrElse(Get(s, "bangla"), Str("summary not provided (bn)"))>> >>),
       IF c.t = "arr"
       THEN Arr([i \in 1 .. Len(c.xs) |-> MapCorrection(c.xs[i])])
       ELSE Arr(<<c>>),
       Obj(<< <<"english", Str("Content analysis completed")>>,
              <<"bangla", Str("content analysis completed (bn)")>> >>),
       Num(ParsedConfidence))

\* the record of the 'old format' / 'simple format' built from the object j
SimpleRecord(j) ==
  LET c == Get(j, "corrections")
  IN Analysis("simple",
       OrElse(Get(j, "summary"), Str("summary not provided (bn)")),
       IF c.t = "arr" THEN c
       ELSE Arr(<<OrElse(c, Str("no suggestion provided (bn)"))>>),
       OrElse(Get(j, "authenticity"), Str("authenticity not provided (bn)")),
       OrElse(Get(j, "confidence"), Num(ParsedConfidence)))

\* the record of the line scan: what the lines gave or the defaults, as
\* strings, with the scanned text under one string
ScannedRecord ==
  Analysis("text", Str("scanned"), Arr(<<Str("scanned")>>), Str("scanned"),
           Num(ParsedConfidence))

\* the record both parsers return from their outermost catch block
PlaceholderRecord ==
  Analysis("placeholder", Str("analysis done (bn)"),
           Arr(<<Str("nothing to correct (bn)")>>),
           Str("verification recommended (bn)"), Num(PlaceholderConfidence))

\* The try block of Gemma3Service.parseAIResponse on the text ts
Gemma3TryText(ts) ==
  LET m == JsonMatch(ts)
      j == JSONParse(m)
  IN IF m = <<>> THEN ScannedRecord
     ELSE IF j = SyntaxError THEN Thrown
     ELSE IF HasThreeKeys(j)
          THEN IF MapThrows(j) THEN Thrown
               ELSE StructuredRecord("structured", j)
     ELSE SimpleRecord(j)

\* The try block inside its catch block on the text ts: the partial match,
\* the balance repair, the decode and the record; no record when there is no
\* match, when something throws or when one of the three keys is missing
Gemma3RepairText(ts) ==
  LET m == PartialMatch(ts)
      j == JSONParse(BalanceRepair(m))
  IN IF m = <<>> THEN NoAnalysis
     ELSE IF j = SyntaxError THEN NoAnalysis
     ELSE IF HasThreeKeys(j) /\ ~MapThrows(j)
          THEN StructuredRecord("repaired", j)
     ELSE NoAnalysis

\* Gemma3Service.parseAIResponse on the text ts
Gemma3ParseText(ts) ==
  LET t == Gemma3TryText(ts)
      r == Gemma3RepairText(ts)
  IN IF t # Thrown THEN t
     ELSE IF r # NoAnalysis THEN r
     ELSE PlaceholderRecord

\* AIService.parseAIResponse on the text ts: the inner try, and the line
\* scan when there is no match or the inner try threw
AIServiceParseText(ts) ==
  LET m == JsonMatch(ts)
      j == JSONParse(m)
  IN IF m = <<>> THEN ScannedRecord
     ELSE IF j = SyntaxError THEN ScannedRecord
     ELSE IF HasThreeKeys(j)
          THEN IF MapThrows(j) THEN ScannedRecord
               ELSE StructuredRecord("structured", j)
     ELSE SimpleRecord(j)

\* ------------------------------------------------------------ model client

\* What Gemma3Service.generateAnalysis does once the first remote call has
\* ended with outcome out: return a record, call AIService.generateAnalysis
\* (the 503 branch of its catch block), or throw Unavailable.  The parse runs
\* inside the try block, so an exception of the parser reaches the same catch.
Gemma3AfterTier1(out) ==
  IF out.ok
  THEN LET p == Gemma3ParseAIResponse(out.body)
       IN IF p = Thrown
          THEN [tag |-> "throw", msg |-> Unavailable]
          ELSE [tag |-> "return", value |-> p]
  ELSE IF out.err = "e503"
       THEN [tag |-> "fallback"]
       ELSE [tag |-> "throw", msg |-> Unavailable]

\* What AIService.generateAnalysis does once its remote call has ended; the
\* parse runs inside its try block, whose catch throws Unavailable
AIServiceAfterCall(out) ==
  IF out.ok /\ AIServiceParseAIResponse(out.body) # Thrown
  THEN [tag |-> "return", value |-> AIServiceParseAIResponse(out.body)]
  ELSE [tag |-> "throw", msg |-> Unavailable]

\* ------------------------------------------------------------------- state

VARIABLES
  mode,           \* "inline" | "broker": QueueService's choice at construction
  jobs,           \* ai_processing_queue, rows in created_at order
  contentRows,    \* keys whose content row exists
  tasks,          \* dispatches: one addAIAnalysisJob call or broker job each
  requestQueue,   \* Gemma3Service.requestQueue, a sequence of request ids
  isProcessing,   \* Gemma3Service.isProcessing
  currentRequest, \* Gemma3Service.currentRequest (0 for null)
  rq,             \* the request objects and their promises
  timers,         \* pending setTimeout callbacks: ms left, ascending
  sinceDone,      \* ms since the queue last finished a request, capped
  drafts,         \* POST /analyze-draft requests
  http,           \* the last response of the job routes of routes/ai.js
  calc,           \* a pure function under evaluation: name, input, output
  poller,         \* AIService: isProcessing and the position of processQueue
  started,        \* history: request ids in the order processQueue took them
  startGap,       \* history: sinceDone when processQueue last took a request
  clears          \* history: clearQueue calls made

dbVars == <<jobs, contentRows>>
\* what no step of the pipeline writes: the dispatcher's mode and the routes'
\* last response
sideVars == <<calc, poller>>
outerVars == <<mode, http, sideVars>>
taskVars == <<outerVars, tasks>>
queueVars == <<requestQueue, isProcessing, currentRequest, rq, timers>>
histVars == <<started, startGap, clears>>
vars == <<mode, jobs, contentRows, tasks, requestQueue, isProcessing,
          currentRequest, rq, timers, sinceDone, drafts, http, calc, poller,
          started, startGap, clears>>

\* getQueueStatus() of an idle queue
IdleQueueStatus ==
  [isProcessing |-> FALSE, queueLength |-> 0, currentRequest |-> 0]

\* A response of a job route: the HTTP code and the fields of the JSON body
\* (status, analysis, error; queue_status as the set of its
\* <<content_type, status, count>> entries; gemma3_queue)
NoResponse ==
  [op |-> "none", code |-> 0, key |-> <<"none", 0>>, status |-> "none",
   analysis |-> NoAnalysis, error |-> "none", counts |-> {},
   gemma3 |-> IdleQueueStatus]

\* res.status(code).json({error: ...}) of route op asked for key k
Refused(op, k, code) == [NoResponse EXCEPT !.op = op, !.key = k, !.code = code]

\* A request object of generateAnalysisWithQueue with its promise.  first and
\* second are history: how the first and the last second-tier call ended (a
\* body class when it answered); t2 counts the second-tier calls and calls
\* the request.resolve / request.reject calls made.  Once the promise is
\* settled the awaiting processContent (owner) resumes in the same turn of the
\* event loop and takes value and history with it.
FreshRequest ==
  [pc |-> "unused", owner |-> 0, promise |-> "pending", value |-> NoAnalysis,
   error |-> "none", first |-> "none", second |-> "none", t2 |-> 0,
   calls |-> 0]

FreshTask ==
  [pc |-> "unused", key |-> <<"dua", 1>>, attempts |-> 0, req |-> 0,
   analysis |-> NoAnalysis, error |-> "none", first |-> "none",
   second |-> "none", t2 |-> 0]

\* no function under evaluation
NoCalc == [fn |-> "none", input |-> <<>>, output |-> NoAnalysis]

\* a processQueue call of AIService that is not running
FreeRun ==
  [pc |-> "free", key |-> <<"none", 0>>, analysis |-> NoAnalysis,
   error |-> "none"]

\* AIService after construction: isProcessing false, processQueue not running
IdlePoller ==
  [isProcessing |-> FALSE, runs |-> [n \in 1 .. MaxPollerRuns |-> FreeRun]]

FreshDraft ==
  [pc |-> "unused", t1 |-> 0, t2 |-> 0, local |-> 0, first |-> "none",
   second |-> "none", analysis |-> NoAnalysis]

InitPipeline ==
  /\ mode \in {"inline", "broker"}
  /\ jobs = <<>>
  /\ contentRows = Keys
  /\ tasks = [t \in TaskIds |-> FreshTask]
  /\ requestQueue = <<>>
  /\ isProcessing = FALSE
  /\ currentRequest = 0
  /\ rq = [r \in ReqIds |-> FreshRequest]
  /\ timers = <<>>
  /\ sinceDone = CoolDownMs
  /\ drafts = [d \in DraftIds |-> FreshDraft]
  /\ http = NoResponse
  /\ poller = IdlePoller
  /\ started = <<>>
  /\ startGap = CoolDownMs
  /\ clears = 0

Init == InitPipeline /\ calc = NoCalc

\* ------------------------------------------------------- single-flight queue

\* a queue that hands out its newest entry
ShiftNewest(q) == <<q[Len(q)], SubSeq(q, 1, Len(q) - 1)>>

\* requestQueue.shift(): the entry taken and the queue left
Shift(q) == <<Head(q), Tail(q)>>

\* request.resolve(v) / request.reject(v): a promise settles once.  The value
\* and the history stay on the request only when no processContent awaits it.
Settle(req, how, v) ==
  IF req.promise # "pending" THEN [req EXCEPT !.calls = @ + 1]
  ELSE LET kept == IF req.owner = 0 THEN [req EXCEPT !.calls = @ + 1]
                   ELSE [req EXCEPT !.first = "none", !.second = "none",
                                    !.t2 = 0, !.calls = @ + 1]
       IN IF how = "resolved"
          THEN [kept EXCEPT !.promise = "resolved",
                            !.value = IF req.owner = 0 THEN v ELSE NoAnalysis]
          ELSE [kept EXCEPT !.promise = "rejected", !.error = v]

\* processContent resuming from 'await generateAnalysisWithQueue' when its
\* request req settles: with the record it calls updateContentWithAI, with
\* the error it enters its catch block
Resume(task, req, how, v) ==
  IF how = "resolved"
  THEN [task EXCEPT !.pc = "pc_writeback", !.analysis = v,
                    !.first = req.first, !.second = req.second, !.t2 = req.t2]
  ELSE [task EXCEPT !.pc = "pc_catch", !.error = v,
                    !.first = req.first, !.second = req.second, !.t2 = req.t2]

\* the task table after request req settled
Deliver(ts, req, how, v) ==
  IF req.owner = 0 \/ req.promise # "pending" THEN ts
  ELSE [ts EXCEPT ![req.owner] = Resume(@, req, how, v)]

\* processQueue up to its await, run on queue q and request table t: nothing
\* when busy or empty, else take the head and send the first remote call
ProcessQueueFrom(q, t) ==
  IF isProcessing \/ Len(q) = 0
  THEN /\ requestQueue' = q
       /\ rq' = t
       /\ UNCHANGED <<isProcessing, currentRequest, started, startGap>>
  ELSE LET s == Shift(q)
       IN /\ isProcessing' = TRUE
          /\ requestQueue' = s[2]
          /\ currentRequest' = s[1]
          /\ rq' = [t EXCEPT ![s[1]].pc = "tier1"]
          /\ started' = Append(started, s[1])
          /\ startGap' = sinceDone

UnusedRequests == {r \in ReqIds : rq[r].pc = "unused"}

\* ids are handed out in call order
NewRequest == CHOOSE r \in UnusedRequests : \A o \in UnusedRequests : r <= o

\* generateAnalysisWithQueue called by task owner (0: a caller outside the
\* job runner): push the request, then processQueue
EnqueueFor(owner) ==
  LET r == NewRequest
  IN ProcessQueueFrom(Append(requestQueue, r),
                      [rq EXCEPT ![r].pc = "queued", ![r].owner = owner])

GenerateAnalysisWithQueue ==
  /\ UnusedRequests # {}
  /\ EnqueueFor(0)
  /\ UNCHANGED <<dbVars, taskVars, timers, sinceDone, drafts, clears>>

\* a finally block that never restarts the queue
FinishRequestNoRestart(r, req, how, v) ==
  /\ rq' = [rq EXCEPT ![r] = Settle([req EXCEPT !.pc = "done"], how, v)]
  /\ tasks' = Deliver(tasks, req, how, v)
  /\ isProcessing' = FALSE
  /\ currentRequest' = 0
  /\ sinceDone' = 0
  /\ UNCHANGED <<requestQueue, timers, started, startGap>>

\* processQueue after its await: request r (with its history in req) settles
\* as how/v, then the finally block
FinishRequest(r, req, how, v) ==
  /\ rq' = [rq EXCEPT ![r] = Settle([req EXCEPT !.pc = "done"], how, v)]
  /\ tasks' = Deliver(tasks, req, how, v)
  /\ isProcessing' = FALSE
  /\ currentRequest' = 0
  /\ timers' = IF Len(requestQueue) > 0 THEN Append(timers, CoolDownMs)
               ELSE timers
  /\ sinceDone' = 0
  /\ UNCHANGED <<requestQueue, started, startGap>>

\* the first remote call of request r ends with outcome out
QueueTier1Respond(r, out) ==
  /\ rq[r].pc = "tier1"
  /\ LET a == Gemma3AfterTier1(out)
         seen == [rq[r] EXCEPT !.first = IF out.ok THEN out.body ELSE out.err]
     IN CASE a.tag = "fallback" ->
               /\ rq' = [rq EXCEPT ![r] = [seen EXCEPT !.pc = "tier2",
                                                       !.t2 = @ + 1]]
               /\ UNCHANGED <<tasks, requestQueue, isProcessing,
                              currentRequest, timers, sinceDone, started,
                              startGap>>
          [] a.tag = "return" -> FinishRequest(r, seen, "resolved", a.value)
          [] OTHER -> FinishRequest(r, seen, "rejected", a.msg)
  /\ UNCHANGED <<dbVars, outerVars, drafts, clears>>

\* the second remote call of request r ends with outcome out
QueueTier2Respond(r, out) ==
  /\ rq[r].pc = "tier2"
  /\ LET a == AIServiceAfterCall(out)
         seen == [rq[r] EXCEPT !.second = IF out.ok THEN out.body
                                          ELSE out.err]
     IN IF a.tag = "return"
        THEN FinishRequest(r, seen, "resolved", a.value)
        ELSE FinishRequest(r, seen, "rejected", a.msg)
  /\ UNCHANGED <<dbVars, outerVars, drafts, clears>>

\* a due setTimeout callback runs processQueue
TimerFire ==
  /\ Len(timers) > 0
  /\ Head(timers) = 0
  /\ timers' = Tail(timers)
  /\ ProcessQueueFrom(requestQueue, rq)
  /\ UNCHANGED <<dbVars, taskVars, sinceDone, drafts, clears>>

InQueue(q, r) == \E i \in 1 .. Len(q) : q[i] = r

\* a clearQueue that forgets the pending entries without rejecting them
ClearedSilently(t, q) == t

\* the request table after clearQueue's forEach(reject) over queue q
Cleared(t, q) == [r \in ReqIds |->
  IF InQueue(q, r)
  THEN Settle([t[r] EXCEPT !.pc = "cleared"], "rejected", QueueCleared)
  ELSE t[r]]

\* the task table after it: each processContent awaiting a rejected request
\* resumes in its catch block
ClearedOwners(ts, t, q) == [o \in TaskIds |->
  IF \E r \in ReqIds : InQueue(q, r) /\ t[r].owner = o
  THEN [ts[o] EXCEPT !.pc = "pc_catch", !.error = QueueCleared]
  ELSE ts[o]]

\* Gemma3Service.clearQueue
ClearQueue ==
  /\ clears < MaxClears
  /\ rq' = Cleared(rq, requestQueue)
  /\ tasks' = ClearedOwners(tasks, rq, requestQueue)
  /\ requestQueue' = <<>>
  /\ isProcessing' = FALSE
  /\ currentRequest' = 0
  /\ clears' = clears + 1
  /\ UNCHANGED <<dbVars, outerVars, timers, sinceDone, drafts, started, startGap>>

\* time passes
Tick ==
  /\ \/ sinceDone < CoolDownMs
     \/ \E i \in 1 .. Len(timers) : timers[i] > 0
  /\ sinceDone' = Min(CoolDownMs, sinceDone + TickMs)
  /\ timers' = [i \in 1 .. Len(timers) |-> Max(0, timers[i] - TickMs)]
  /\ UNCHANGED <<dbVars, taskVars, requestQueue, isProcessing, currentRequest,
                 rq, drafts, started, startGap, clears>>

\* ------------------------------------------------------------- job table

NewRow(k) ==
  [key |-> k, status |-> "pending", result |-> NoAnalysis, error |-> "none",
   processed |-> FALSE]

\* UPDATE ai_processing_queue SET status = 'processing'
\*   WHERE content_id = $2 AND content_type = $3: every row of the key
MarkProcessing(js, k) == [i \in 1 .. Len(js) |->
  IF js[i].key = k THEN [js[i] EXCEPT !.status = "processing"] ELSE js[i]]

\* UPDATE ... SET status = 'completed', result = $2, processed_at = now
MarkCompleted(js, k, a) == [i \in 1 .. Len(js) |->
  IF js[i].key = k
  THEN [js[i] EXCEPT !.status = "completed", !.result = a, !.processed = TRUE]
  ELSE js[i]]

\* an UPDATE to 'failed' that leaves error_message as it was
MarkFailedNoMessage(js, k, e) == [i \in 1 .. Len(js) |->
  IF js[i].key = k
  THEN [js[i] EXCEPT !.status = "failed", !.processed = TRUE]
  ELSE js[i]]

\* UPDATE ... SET status = 'failed', error_message = $2, processed_at = now
MarkFailed(js, k, e) == [i \in 1 .. Len(js) |->
  IF js[i].key = k
  THEN [js[i] EXCEPT !.status = "failed", !.error = e, !.processed = TRUE]
  ELSE js[i]]

HasRow(k) == \E i \in 1 .. Len(jobs) : jobs[i].key = k

\* an INSERT that adds nothing when the key already has a row
InsertUnlessPresent(js, k) ==
  IF \E i \in 1 .. Len(js) : js[i].key = k THEN js ELSE Append(js, NewRow(k))

\* INSERT INTO ai_processing_queue (content_type, content_id, status)
\*   VALUES ($1, $2, 'pending') ON CONFLICT DO NOTHING: the table's only
\* unique key is the generated id, so no conflict arises and a row is added
Insert(js, k) == Append(js, NewRow(k))

\* an access check that passes whether or not the content row exists
CheckContentAccessAlways(k) == TRUE

\* checkContentAccess for a user entitled to the content: false when the
\* content row is missing
CheckContentAccess(k) == k \in contentRows

\* POST /analyze/:contentType/:contentId: 400 for a kind outside the
\* whitelist, 403 when checkContentAccess fails, else the INSERT and 200
Submit(kind, id) ==
  /\ IF kind \notin Kinds
     THEN /\ http' = Refused("submit", <<kind, id>>, 400)
          /\ jobs' = jobs
     ELSE IF ~CheckContentAccess(<<kind, id>>)
     THEN /\ http' = Refused("submit", <<kind, id>>, 403)
          /\ jobs' = jobs
     ELSE /\ Len(jobs) < MaxRows
          /\ jobs' = Insert(jobs, <<kind, id>>)
          /\ http' = [NoResponse EXCEPT !.op = "submit", !.key = <<kind, id>>,
                                        !.code = 200]
  /\ UNCHANGED <<contentRows, mode, sideVars, tasks, queueVars, sinceDone, drafts,
                 histVars>>

\* DELETE /api/duas/:id and its like: the job rows of the key stay
DeleteContent(k) ==
  /\ k \in contentRows
  /\ HasRow(k)
  /\ contentRows' = contentRows \ {k}
  /\ UNCHANGED <<jobs, taskVars, queueVars, sinceDone, drafts, histVars>>

\* -------------------------------------------------------------- job routes

\* the values of the status column (the schema's CHECK)
Statuses == {"pending", "processing", "completed", "failed"}

\* indexes of the rows of key k
RowsOf(js, k) == {i \in 1 .. Len(js) : js[i].key = k}

\* the oldest row of key k
OldestRow(js, k) ==
  js[CHOOSE i \in RowsOf(js, k) : \A j \in RowsOf(js, k) : i <= j]

\* ... ORDER BY created_at DESC LIMIT 1: the newest row of key k
LatestRow(js, k) ==
  js[CHOOSE i \in RowsOf(js, k) : \A j \in RowsOf(js, k) : j <= i]

\* the JSON body GET /analysis builds from the row it selected
PollBody(k, row) ==
  LET ok == [NoResponse EXCEPT !.op = "poll", !.key = k, !.code = 200,
                               !.status = row.status]
  IN IF row.status = "completed" /\ row.result # NoAnalysis
     THEN [ok EXCEPT !.analysis = row.result]
     ELSE IF row.status = "failed"
     THEN [ok EXCEPT !.error = row.error]
     ELSE ok

\* GET /analysis/:contentType/:contentId: 400 for a kind outside the
\* whitelist, 403 when checkContentAccess fails, 404 with no row of the key,
\* else the body built from the newest row.  One SELECT, no write.
Poll(kind, id) ==
  /\ http' =
       IF kind \notin Kinds THEN Refused("poll", <<kind, id>>, 400)
       ELSE IF ~CheckContentAccess(<<kind, id>>)
       THEN Refused("poll", <<kind, id>>, 403)
       ELSE IF RowsOf(jobs, <<kind, id>>) = {}
       THEN Refused("poll", <<kind, id>>, 404)
       ELSE PollBody(<<kind, id>>, LatestRow(jobs, <<kind, id>>))
  /\ UNCHANGED <<dbVars, mode, sideVars, tasks, queueVars, sinceDone, drafts,
                 histVars>>

\* counts grouped by status alone, repeated under every kind present
GroupCountsByStatus(js) ==
  {<<js[h].key[1], st, Cardinality({i \in 1 .. Len(js) : js[i].status = st})>> :
     <<h, st>> \in {<<g, js[g].status>> : g \in 1 .. Len(js)}}

\* SELECT content_type, status, COUNT(*) ... GROUP BY content_type, status,
\* folded into status[content_type][status]: one entry per non-empty group
GroupCounts(js) ==
  {<<kind, st, Cardinality({i \in 1 .. Len(js) :
                              js[i].key[1] = kind /\ js[i].status = st})>> :
     <<kind, st>> \in {<<js[i].key[1], js[i].status>> : i \in 1 .. Len(js)}}

\* Gemma3Service.getQueueStatus
GetQueueStatus ==
  [isProcessing |-> isProcessing, queueLength |-> Len(requestQueue),
   currentRequest |-> currentRequest]

\* GET /queue/status: the grouped counts and the queue's own status
QueueStatus ==
  /\ http' = [NoResponse EXCEPT !.op = "status", !.code = 200,
                                !.counts = GroupCounts(jobs),
                                !.gemma3 = GetQueueStatus]
  /\ UNCHANGED <<dbVars, mode, sideVars, tasks, queueVars, sinceDone, drafts,
                 histVars>>

\* QueueService.clearQueue: without a broker DELETE FROM ai_processing_queue,
\* with one aiQueue.empty(), which removes the waiting jobs
QueueServiceClearQueue ==
  /\ IF mode = "inline"
     THEN /\ jobs' = <<>>
          /\ tasks' = tasks
     ELSE /\ jobs' = jobs
          /\ tasks' = [t \in TaskIds |->
               IF tasks[t].pc = "b_waiting"
               THEN [tasks[t] EXCEPT !.pc = "b_removed"] ELSE tasks[t]]
  /\ UNCHANGED <<contentRows, outerVars, queueVars, sinceDone, drafts,
                 histVars>>

\* ------------------------------------------------------------- dispatcher

UnusedTasks == {t \in TaskIds : tasks[t].pc = "unused"}
NewTask == CHOOSE t \in UnusedTasks : \A o \in UnusedTasks : t <= o

\* a task inside processContent
InProcessContent(t) ==
  tasks[t].pc \in {"pc_mark", "pc_getContent", "pc_await", "pc_writeback",
                   "pc_complete", "pc_catch"}

\* addAIAnalysisJob without a broker, up to its first await: the UPDATE to
\* 'processing' of part_008 line 53
AddJobInline(k) ==
  /\ mode = "inline"
  /\ UnusedTasks # {}
  /\ HasRow(k)
  /\ jobs' = MarkProcessing(jobs, k)
  /\ tasks' = [tasks EXCEPT ![NewTask] = [@ EXCEPT !.pc = "pc_mark", !.key = k,
                                            !.attempts = 1]]
  /\ UNCHANGED <<contentRows, outerVars, queueVars, sinceDone, drafts, histVars>>

\* addAIAnalysisJob with a broker: aiQueue.add, and the job handle is returned
AddJobBroker(k) ==
  /\ mode = "broker"
  /\ UnusedTasks # {}
  /\ HasRow(k)
  /\ tasks' = [tasks EXCEPT ![NewTask] = [@ EXCEPT !.pc = "b_waiting",
                                            !.key = k]]
  /\ UNCHANGED <<dbVars, outerVars, queueVars, sinceDone, drafts, histVars>>

\* bull's worker (concurrency 1) takes a waiting job, for a first attempt or
\* a retry, and calls processContent
WorkerTake(t) ==
  /\ tasks[t].pc = "b_waiting"
  /\ \A o \in TaskIds : ~InProcessContent(o)
  /\ tasks' = [tasks EXCEPT ![t].pc = "pc_mark", ![t].attempts = @ + 1,
                            ![t].req = 0, ![t].analysis = NoAnalysis,
                            ![t].error = "none", ![t].first = "none",
                            ![t].second = "none", ![t].t2 = 0]
  /\ UNCHANGED <<dbVars, outerVars, queueVars, sinceDone, drafts, histVars>>

\* processContent: the UPDATE to 'processing'
PcMarkProcessing(t) ==
  /\ tasks[t].pc = "pc_mark"
  /\ jobs' = MarkProcessing(jobs, tasks[t].key)
  /\ tasks' = [tasks EXCEPT ![t].pc = "pc_getContent"]
  /\ UNCHANGED <<contentRows, outerVars, queueVars, sinceDone, drafts, histVars>>

\* processContent: getContent answers; with no row 'Content not found' is
\* thrown, else generateAnalysisWithQueue is called
PcGetContent(t) ==
  /\ tasks[t].pc = "pc_getContent"
  /\ IF tasks[t].key \notin contentRows
     THEN /\ tasks' = [tasks EXCEPT ![t].pc = "pc_catch",
                                    ![t].error = ContentNotFound]
          /\ UNCHANGED <<queueVars, started, startGap>>
     ELSE /\ UnusedRequests # {}
          /\ EnqueueFor(t)
          /\ tasks' = [tasks EXCEPT ![t].pc = "pc_await", ![t].req = NewRequest]
          /\ UNCHANGED timers
  /\ UNCHANGED <<dbVars, outerVars, sinceDone, drafts, clears>>

\* processContent: updateContentWithAI's UPDATE of the content row ends; it
\* succeeded (ok) or threw
PcWriteBack(t, ok) ==
  /\ tasks[t].pc = "pc_writeback"
  /\ tasks' = [tasks EXCEPT ![t] =
       IF ok THEN [@ EXCEPT !.pc = "pc_complete"]
       ELSE [@ EXCEPT !.pc = "pc_catch", !.error = WriteBackFailed]]
  /\ UNCHANGED <<dbVars, outerVars, queueVars, sinceDone, drafts, histVars>>

\* processContent: the UPDATE to 'completed', then return analysis
PcMarkCompleted(t) ==
  /\ tasks[t].pc = "pc_complete"
  /\ jobs' = MarkCompleted(jobs, tasks[t].key, tasks[t].analysis)
  /\ tasks' = [tasks EXCEPT ![t].pc =
                 IF mode = "inline" THEN "pc_returned" ELSE "b_completed"]
  /\ UNCHANGED <<contentRows, outerVars, queueVars, sinceDone, drafts, histVars>>

\* processContent's catch block: the UPDATE to 'failed', then throw error.
\* Under bull the attempt failed: it is retried until attempts are used up.
PcCatch(t) ==
  /\ tasks[t].pc = "pc_catch"
  /\ jobs' = MarkFailed(jobs, tasks[t].key, tasks[t].error)
  /\ tasks' = [tasks EXCEPT ![t].pc =
                 IF mode = "inline" THEN "pc_threw"
                 ELSE IF tasks[t].attempts < MaxAttempts THEN "b_waiting"
                 ELSE "b_failed"]
  /\ UNCHANGED <<contentRows, outerVars, queueVars, sinceDone, drafts, histVars>>

\* addAIAnalysisJob after processContent returned: the second UPDATE to
\* 'completed', then return {success: true, result}
InlineAfterReturn(t) ==
  /\ tasks[t].pc = "pc_returned"
  /\ jobs' = MarkCompleted(jobs, tasks[t].key, tasks[t].analysis)
  /\ tasks' = [tasks EXCEPT ![t].pc = "returned"]
  /\ UNCHANGED <<contentRows, outerVars, queueVars, sinceDone, drafts, histVars>>

\* addAIAnalysisJob's catch block: the second UPDATE to 'failed', then throw
InlineCatch(t) ==
  /\ tasks[t].pc = "pc_threw"
  /\ jobs' = MarkFailed(jobs, tasks[t].key, tasks[t].error)
  /\ tasks' = [tasks EXCEPT ![t].pc = "threw"]
  /\ UNCHANGED <<contentRows, outerVars, queueVars, sinceDone, drafts, histVars>>

\* ------------------------------------------------------------ draft route

UnusedDrafts == {d \in DraftIds : drafts[d].pc = "unused"}

\* POST /analyze-draft with a valid kind and content, up to its first await:
\* gemma3Service.generateAnalysis is called directly, not through the queue
DraftStart(d) ==
  /\ drafts[d].pc = "unused"
  /\ drafts' = [drafts EXCEPT ![d].pc = "tier1", ![d].t1 = @ + 1]
  /\ UNCHANGED <<dbVars, taskVars, queueVars, sinceDone, histVars>>

\* the first remote call of draft d ends.  A throw of generateAnalysis lands
\* in the route's catch (gemma3Error), which calls aiService.generateAnalysis.
DraftTier1Respond(d, out) ==
  /\ drafts[d].pc = "tier1"
  /\ LET a == Gemma3AfterTier1(out)
         seen == [drafts[d] EXCEPT !.first = IF out.ok THEN out.body
                                             ELSE out.err]
     IN drafts' = [drafts EXCEPT ![d] =
          CASE a.tag = "return" ->
                 [seen EXCEPT !.pc = "done", !.analysis = a.value]
            [] a.tag = "fallback" ->
                 [seen EXCEPT !.pc = "tier2_inner", !.t2 = @ + 1]
            [] OTHER -> [seen EXCEPT !.pc = "tier2_route", !.t2 = @ + 1]]
  /\ UNCHANGED <<dbVars, taskVars, queueVars, sinceDone, histVars>>

\* the call of aiService.generateAnalysis made inside generateAnalysis's 503
\* branch ends; its throw leaves generateAnalysis and lands in the route's
\* catch (gemma3Error), which calls aiService.generateAnalysis
DraftTier2InnerRespond(d, out) ==
  /\ drafts[d].pc = "tier2_inner"
  /\ LET a == AIServiceAfterCall(out)
         seen == [drafts[d] EXCEPT !.second = IF out.ok THEN out.body
                                              ELSE out.err]
     IN drafts' = [drafts EXCEPT ![d] =
          IF a.tag = "return"
          THEN [seen EXCEPT !.pc = "done", !.analysis = a.value]
          ELSE [seen EXCEPT !.pc = "tier2_route", !.t2 = @ + 1]]
  /\ UNCHANGED <<dbVars, taskVars, queueVars, sinceDone, histVars>>

\* a route without the local analyzer: the second tier's throw reaches the
\* outer catch, which answers 500
DraftTier2RouteNoLocal(d, out) ==
  /\ drafts[d].pc = "tier2_route"
  /\ LET a == AIServiceAfterCall(out)
         seen == [drafts[d] EXCEPT !.second = IF out.ok THEN out.body
                                              ELSE out.err]
     IN drafts' = [drafts EXCEPT ![d] =
          IF a.tag = "return"
          THEN [seen EXCEPT !.pc = "done", !.analysis = a.value]
          ELSE [seen EXCEPT !.pc = "error"]]
  /\ UNCHANGED <<dbVars, taskVars, queueVars, sinceDone, histVars>>

\* the route's own call of aiService.generateAnalysis ends; its throw lands
\* in the catch (aiError), which runs generateLocalFallbackAnalysis
DraftTier2RouteRespond(d, out) ==
  /\ drafts[d].pc = "tier2_route"
  /\ LET a == AIServiceAfterCall(out)
         seen == [drafts[d] EXCEPT !.second = IF out.ok THEN out.body
                                              ELSE out.err]
     IN drafts' = [drafts EXCEPT ![d] =
          IF a.tag = "return"
          THEN [seen EXCEPT !.pc = "done", !.analysis = a.value]
          ELSE [seen EXCEPT !.pc = "done", !.local = @ + 1,
                            !.analysis = LocalFallback]]
  /\ UNCHANGED <<dbVars, taskVars, queueVars, sinceDone, histVars>>

\* ------------------------------------------------------------ specifications

\* The outcomes the job and queue specifications draw from: one answer the
\* parser decodes, one it cannot, the 503 and one other failure of the first
\* call; for the second call one answer and its failure.
JobTier1Outcomes ==
  {o \in Tier1Outcomes : o.body \in {"structured", "garbled"} \/
                         o.err \in {"e503", "timeout"}}
JobTier2Outcomes ==
  {o \in Tier2Outcomes : o.body = "structured" \/ o.err = "fail"}

\* only the inline dispatcher is in play where no dispatch is made
InitInline == Init /\ mode = "inline"

QueueNext ==
  \/ GenerateAnalysisWithQueue
  \/ \E r \in ReqIds : \E out \in JobTier1Outcomes : QueueTier1Respond(r, out)
  \/ \E r \in ReqIds : \E out \in JobTier2Outcomes : QueueTier2Respond(r, out)
  \/ TimerFire
  \/ ClearQueue
  \/ Tick

\* the single-flight queue under arbitrary callers
SpecQueue == InitInline /\ [][QueueNext]_vars

\* a remote call of request r returns or fails
QueueRespond(r) ==
  \/ \E out \in JobTier1Outcomes : QueueTier1Respond(r, out)
  \/ \E out \in JobTier2Outcomes : QueueTier2Respond(r, out)

\* a caller enqueues, within the bound of the fair specification
FairEnqueue ==
  /\ Cardinality(ReqIds \ UnusedRequests) < MaxFairRequests
  /\ GenerateAnalysisWithQueue

QueueFairNext ==
  \/ FairEnqueue
  \/ \E r \in ReqIds : QueueRespond(r)
  \/ TimerFire
  \/ ClearQueue
  \/ Tick

\* the queue where every remote call made returns or fails, time passes and
\* due timers run; callers and clearQueue are under no obligation
SpecQueueFair ==
  /\ InitInline
  /\ [][QueueFairNext]_vars
  /\ \A r \in ReqIds : WF_vars(QueueRespond(r))
  /\ WF_vars(TimerFire)
  /\ WF_vars(Tick)

DraftNext ==
  \/ \E d \in DraftIds : DraftStart(d)
  \/ \E d \in DraftIds : \E out \in Tier1Outcomes : DraftTier1Respond(d, out)
  \/ \E d \in DraftIds : \E out \in Tier2Outcomes :
        DraftTier2InnerRespond(d, out)
  \/ \E d \in DraftIds : \E out \in Tier2Outcomes :
        DraftTier2RouteRespond(d, out)

\* the draft route alone
SpecDraft == InitInline /\ [][DraftNext]_vars

\* a remote call of draft d returns or fails
DraftRespond(d) ==
  \/ \E out \in Tier1Outcomes : DraftTier1Respond(d, out)
  \/ \E out \in Tier2Outcomes : DraftTier2InnerRespond(d, out)
  \/ \E out \in Tier2Outcomes : DraftTier2RouteRespond(d, out)

\* the draft route where every remote call made returns or fails
SpecDraftFair ==
  SpecDraft /\ \A d \in DraftIds : WF_vars(DraftRespond(d))

\* time passes while a timer is pending
TimerTick ==
  /\ \E i \in 1 .. Len(timers) : timers[i] > 0
  /\ Tick

Next ==
  \/ \E k \in Keys : Submit(k[1], k[2])
  \/ \E k \in Keys : DeleteContent(k)
  \/ \E k \in Keys : AddJobInline(k)
  \/ \E k \in Keys : AddJobBroker(k)
  \/ \E t \in TaskIds : WorkerTake(t)
  \/ \E t \in TaskIds : PcMarkProcessing(t)
  \/ \E t \in TaskIds : PcGetContent(t)
  \/ \E t \in TaskIds : \E ok \in BOOLEAN : PcWriteBack(t, ok)
  \/ \E t \in TaskIds : PcMarkCompleted(t)
  \/ \E t \in TaskIds : PcCatch(t)
  \/ \E t \in TaskIds : InlineAfterReturn(t)
  \/ \E t \in TaskIds : InlineCatch(t)
  \/ \E r \in ReqIds : \E out \in JobTier1Outcomes : QueueTier1Respond(r, out)
  \/ \E r \in ReqIds : \E out \in JobTier2Outcomes : QueueTier2Respond(r, out)
  \/ TimerFire
  \/ TimerTick

\* the job pipeline: submissions, dispatches, the job runner and the queue
Spec == Init /\ [][Next]_vars

\* the keys a route is asked for: those of the runs, one of a known kind with
\* no content row and one of a kind outside the whitelist
RouteKeys == Keys \cup {<<"dua", 2>>, <<"note", 1>>}

\* the answers of the first remote call drawn by the route specification:
\* one that completes the job and one that fails it
RouteTier1Outcomes ==
  {o \in Tier1Outcomes : o.body = "structured" \/ o.err = "timeout"}

\* an inline dispatch made when no other is running, within the route
\* specification's bound (concurrent dispatches are part of Spec)
RouteDispatch(k) ==
  /\ Cardinality(TaskIds \ UnusedTasks) < MaxRouteTasks
  /\ \A t \in TaskIds : tasks[t].pc \in {"unused", "returned", "threw"}
  /\ AddJobInline(k)

RoutesNext ==
  \/ \E k \in RouteKeys : Submit(k[1], k[2])
  \/ \E k \in RouteKeys : Poll(k[1], k[2])
  \/ QueueStatus
  \/ QueueServiceClearQueue
  \/ \E k \in Keys : DeleteContent(k)
  \/ \E k \in Keys : RouteDispatch(k)
  \/ \E t \in TaskIds : PcMarkProcessing(t)
  \/ \E t \in TaskIds : PcGetContent(t)
  \/ \E t \in TaskIds : PcWriteBack(t, TRUE)
  \/ \E t \in TaskIds : PcMarkCompleted(t)
  \/ \E t \in TaskIds : PcCatch(t)
  \/ \E t \in TaskIds : InlineAfterReturn(t)
  \/ \E t \in TaskIds : InlineCatch(t)
  \/ \E r \in ReqIds : \E out \in RouteTier1Outcomes :
        QueueTier1Respond(r, out)

\* the job routes over the job table, with the inline dispatcher writing it
SpecRoutes == InitInline /\ [][RoutesNext]_vars

\* a caller outside the job runner enqueues, within the client bound
ClientEnqueue ==
  /\ Cardinality(ReqIds \ UnusedRequests) < MaxClientRequests
  /\ GenerateAnalysisWithQueue

ClientNext ==
  \/ ClientEnqueue
  \/ \E r \in ReqIds : \E out \in Tier1Outcomes : QueueTier1Respond(r, out)
  \/ \E r \in ReqIds : \E out \in Tier2Outcomes : QueueTier2Respond(r, out)
  \/ \E d \in 1 .. MaxClientDrafts : DraftStart(d)
  \/ \E d \in DraftIds : \E out \in Tier1Outcomes : DraftTier1Respond(d, out)
  \/ \E d \in DraftIds : \E out \in Tier2Outcomes :
        DraftTier2InnerRespond(d, out)
  \/ \E d \in DraftIds : \E out \in Tier2Outcomes :
        DraftTier2RouteRespond(d, out)

\* the model client through both of its callers, with every class of answer:
\* the draft route, and processQueue as called by generateAnalysisWithQueue
\* (its restart by the cool-down timer is part of SpecQueue and Spec)
SpecClient == InitInline /\ [][ClientNext]_vars


\* ------------------------------------------------- the parsers on their own

\* every variable but calc
pipelineVars ==
  <<dbVars, mode, http, poller, tasks, queueVars, sinceDone, drafts, histVars>>

\* one entry of a model's corrections array
Entry(f) == Obj(<< <<"field", Str(f)>>, <<"issue_english", Str("issue")>> >>)

BilingualSummary ==
  Obj(<< <<"english", Str("summary")>>, <<"bangla", Str("summary (bn)")>> >>)

\* an answer in the 'working example format', in the key order of the prompt
StructuredDoc ==
  Obj(<< <<"analysis", Obj(<< <<"overall", Str("sound")>> >>)>>,
         <<"corrections", Arr(<<Entry("title"), Entry("arabic_text")>>)>>,
         <<"summary", BilingualSummary>> >>)

\* the same with a null in its corrections array
NullItemDoc ==
  Obj(<< <<"analysis", Obj(<< <<"overall", Str("sound")>> >>)>>,
         <<"corrections", Arr(<<Null>>)>>,
         <<"summary", BilingualSummary>> >>)

\* every proper, non-empty prefix of a text
Truncations(ts) == {SubSeq(ts, 1, n) : n \in 1 .. Len(ts) - 1}

\* the structured answer cut short, on one line and over several lines
TruncatedTexts ==
  Truncations(Stringify(StructuredDoc))
    \cup Truncations(Lines(Stringify(StructuredDoc)))

\* The records a parser or the local analyzer can hand out
BilingualAuthenticity ==
  Obj(<< <<"english", Str("Content analysis completed")>>,
         <<"bangla", Str("content analysis completed (bn)")>> >>)

RecordConfidences == {0, LocalConfidence, ParsedConfidence, 10}

WellFormedRecords ==
  {Analysis("any", BilingualSummary, c, a, Num(n)) :
     c \in {Arr(<<>>), Arr(<<MapCorrection(Entry("title"))>>),
            Arr(<<MapCorrection(Entry("title")),
                  MapCorrection(Entry("arabic_text"))>>)},
     a \in {BilingualAuthenticity},
     n \in RecordConfidences}

\* JSON.stringify(record)
RecordText(r) ==
  Stringify(Obj(<< <<"summary", r.summary>>,
                   <<"corrections", r.corrections>>,
                   <<"authenticity", r.authenticity>>,
                   <<"confidence", r.confidence>> >>))

\* what a remote model may put under "confidence" (tenths): in range, out of
\* range and not a number
RemoteConfidences == {Num(0), Num(5), Num(12), Num(-3), Str("high")}

\* answers in the 'old format': no analysis key, a confidence of their own
SimpleTexts ==
  {Stringify(Obj(<< <<"summary", Str("summary")>>,
                    <<"corrections", Arr(<<Str("suggestion")>>)>>,
                    <<"confidence", c>> >>)) : c \in RemoteConfidences}

\* prose, the empty string and whole structured answers
OtherTexts ==
  {<<>>, <<Tok("word")>>, <<Tok("word"), Tok("nl"), Tok("word")>>,
   Stringify(StructuredDoc), Lines(Stringify(StructuredDoc)),
   Stringify(NullItemDoc)}

BracketToks == {Tok("{"), Tok("["), Tok("]"), Tok("}")}

Closer(c) == IF c = "{" THEN "}" ELSE "]"

Mismatch == <<"mismatch">>

\* the openers left open after reading ts on top of the open ones in st,
\* outermost first; Mismatch when a closer meets no opener of its kind
RECURSIVE Nesting(_, _)
Nesting(ts, st) ==
  IF Len(ts) = 0 THEN st
  ELSE IF ts[1].t \in {"{", "["}
       THEN Nesting(Tail(ts), Append(st, ts[1].t))
  ELSE IF ts[1].t \in {"}", "]"}
       THEN IF Len(st) > 0 /\ Closer(st[Len(st)]) = ts[1].t
            THEN Nesting(Tail(ts), SubSeq(st, 1, Len(st) - 1))
            ELSE Mismatch
  ELSE Nesting(Tail(ts), st)

WellNested(ts) == Nesting(ts, <<>>) = <<>>

\* the prefixes of well-nested runs of braces and brackets that open with a
\* brace, as the partial match does
BracketTexts ==
  {ts \in UNION {[1 .. n -> BracketToks] : n \in 1 .. MaxNest} :
     ts[1].t = "{" /\ Nesting(ts, <<>>) # Mismatch}

ParserTexts ==
  TruncatedTexts \cup {RecordText(r) : r \in WellFormedRecords}
    \cup SimpleTexts \cup OtherTexts \cup BracketTexts

InitParser ==
  /\ InitPipeline
  /\ mode = "inline"
  /\ calc \in {[NoCalc EXCEPT !.input = ts] : ts \in ParserTexts}

\* Gemma3Service.parseAIResponse(text)
ParseGemma3 ==
  /\ calc.fn = "none"
  /\ calc' = [calc EXCEPT !.fn = "gemma3",
                          !.output = Gemma3ParseText(calc.input)]
  /\ UNCHANGED pipelineVars

\* AIService.parseAIResponse(text)
ParseAIService ==
  /\ calc.fn = "none"
  /\ calc' = [calc EXCEPT !.fn = "aiService",
                          !.output = AIServiceParseText(calc.input)]
  /\ UNCHANGED pipelineVars

\* the partial match and the balance repair of the catch block, up to the
\* text handed to JSON.parse
RepairText ==
  /\ calc.fn = "none"
  /\ PartialMatch(calc.input) # <<>>
  /\ calc' = [calc EXCEPT !.fn = "repair",
                          !.output = BalanceRepair(PartialMatch(calc.input))]
  /\ UNCHANGED pipelineVars

ParserNext == ParseGemma3 \/ ParseAIService \/ RepairText

\* the two parsers as pure functions of the text
SpecParser == InitParser /\ [][ParserNext]_vars


\* ------------------------------------------------ the local analyzer alone

\* the whitelist of POST /analyze-draft
DraftKinds == {"dua", "blog", "question", "answer"}

\* A field of the draft is held by its length; Absent when it is not there
Absent == 0 - 1

FieldLengths(min) == {Absent, 0, min - 1, min}

DraftContents ==
  [title : FieldLengths(MinTitle), arabic_text : FieldLengths(MinArabic),
   meaning : FieldLengths(MinMeaning), content : FieldLengths(MinBlogBody)]

\* a field as a condition: undefined and the empty string are falsy
Present(len) == len > 0

\* suggestions.push(s) when cond holds
PushIf(cond, s) == IF cond THEN <<s>> ELSE <<>>

\* an analyzer that leaves out the rules of the content kind
SuggestionsWithoutKindRules(kind, c) ==
  PushIf(Present(c.title) /\ c.title < MinTitle, "title_short")
    \o PushIf(Present(c.arabic_text) /\ c.arabic_text < MinArabic,
              "arabic_short")
    \o PushIf(Present(c.meaning) /\ c.meaning < MinMeaning, "meaning_short")

\* the suggestions array before the default is applied, in push order
RuleSuggestions(kind, c) ==
  PushIf(Present(c.title) /\ c.title < MinTitle, "title_short")
    \o PushIf(Present(c.arabic_text) /\ c.arabic_text < MinArabic,
              "arabic_short")
    \o PushIf(Present(c.meaning) /\ c.meaning < MinMeaning, "meaning_short")
    \o PushIf(kind = "dua" /\ ~Present(c.arabic_text), "dua_arabic_required")
    \o PushIf(kind = "dua" /\ ~Present(c.meaning), "dua_meaning_important")
    \o PushIf(kind = "blog" /\ (~Present(c.content) \/ c.content < MinBlogBody),
              "blog_body_short")

\* the default suggestions pushed when the array is empty
GenericPair == <<"structure_looks_good", "consider_more_context">>

\* banglaTranslations[suggestion] || suggestion: each of the eight
\* suggestions has its translation
Bangla(s) == <<"bn", s>>

\* generateLocalFallbackAnalysis(contentType, content): no await and no call
\* to either remote tier in its body
GenerateLocalFallbackAnalysis(kind, c) ==
  LET found == RuleSuggestions(kind, c)
      all == IF Len(found) = 0 THEN GenericPair ELSE found
  IN [tag |-> "record", branch |-> "local", confidence |-> LocalConfidence,
      source |-> "local_fallback",
      corrections |-> [i \in 1 .. Len(all) |-> Bangla(all[i])],
      remoteCalls |-> 0]

InitLocal ==
  /\ InitPipeline
  /\ mode = "inline"
  /\ calc \in {[NoCalc EXCEPT !.input = [kind |-> k, content |-> c]] :
                 k \in DraftKinds, c \in DraftContents}

AnalyzeLocally ==
  /\ calc.fn = "none"
  /\ calc' = [calc EXCEPT !.fn = "local",
                !.output = GenerateLocalFallbackAnalysis(calc.input.kind,
                                                         calc.input.content)]
  /\ UNCHANGED pipelineVars

\* the local analyzer as a pure function of kind and content
SpecLocal == InitLocal /\ [][AnalyzeLocally]_vars


\* ------------------------------------------------------- AIService's poller

\* every variable but jobs and poller
pollerRest ==
  <<contentRows, mode, http, calc, tasks, queueVars, sinceDone, drafts,
    histVars>>

RunIds == 1 .. MaxPollerRuns

FreeRuns == {n \in RunIds : poller.runs[n].pc = "free"}

\* The setInterval callback: AIService.processQueue up to its first await.
\* It returns at once when isProcessing is set, else sets it and sends the
\* SELECT.
ProcessQueueStart ==
  IF poller.isProcessing THEN UNCHANGED vars
  ELSE /\ FreeRuns # {}
       /\ poller' = [poller EXCEPT
                       !.isProcessing = TRUE,
                       !.runs[CHOOSE n \in FreeRuns : \A o \in FreeRuns : n <= o].pc =
                         "select"]
       /\ UNCHANGED <<jobs, pollerRest>>

PendingRows(js) == {i \in 1 .. Len(js) : js[i].status = "pending"}

\* the finally block of processQueue: run n is over
EndRun(n) == [poller EXCEPT !.isProcessing = FALSE, !.runs[n] = FreeRun]

\* SELECT * FROM ai_processing_queue WHERE status = 'pending'
\*   ORDER BY created_at ASC LIMIT 1 answers: with no row the run ends, else
\* processContent(item.content_type, item.content_id) sends its first UPDATE
PollerSelect(n) ==
  /\ poller.runs[n].pc = "select"
  /\ IF PendingRows(jobs) = {}
     THEN poller' = EndRun(n)
     ELSE poller' = [poller EXCEPT
            !.runs[n].pc = "pc_mark",
            !.runs[n].key = jobs[MinOf(PendingRows(jobs))].key]
  /\ UNCHANGED <<jobs, pollerRest>>

\* processContent of AIService: the UPDATE to 'processing', then getContent
PollerMarkProcessing(n) ==
  /\ poller.runs[n].pc = "pc_mark"
  /\ jobs' = MarkProcessing(jobs, poller.runs[n].key)
  /\ poller' = [poller EXCEPT !.runs[n].pc = "pc_get"]
  /\ UNCHANGED pollerRest

\* getContent answers: without a row 'Content not found' is thrown, else
\* generateAnalysis sends the remote call
PollerGetContent(n) ==
  /\ poller.runs[n].pc = "pc_get"
  /\ poller' = IF poller.runs[n].key \in contentRows
               THEN [poller EXCEPT !.runs[n].pc = "call"]
               ELSE [poller EXCEPT !.runs[n].pc = "pc_catch",
                                   !.runs[n].error = ContentNotFound]
  /\ UNCHANGED <<jobs, pollerRest>>

\* the remote call of AIService.generateAnalysis ends with outcome out
PollerRespond(n, out) ==
  /\ poller.runs[n].pc = "call"
  /\ LET a == AIServiceAfterCall(out)
     IN poller' = IF a.tag = "return"
                  THEN [poller EXCEPT !.runs[n].pc = "pc_writeback",
                                      !.runs[n].analysis = a.value]
                  ELSE [poller EXCEPT !.runs[n].pc = "pc_catch",
                                      !.runs[n].error = a.msg]
  /\ UNCHANGED <<jobs, pollerRest>>

\* updateContentWithAI answers: its failure is thrown to the catch block
PollerWriteBack(n, ok) ==
  /\ poller.runs[n].pc = "pc_writeback"
  /\ poller' = IF ok THEN [poller EXCEPT !.runs[n].pc = "pc_complete"]
               ELSE [poller EXCEPT !.runs[n].pc = "pc_catch",
                                   !.runs[n].error = WriteBackFailed]
  /\ UNCHANGED <<jobs, pollerRest>>

\* the UPDATE to 'completed'; processContent returns and processQueue's
\* finally block runs
PollerMarkCompleted(n) ==
  /\ poller.runs[n].pc = "pc_complete"
  /\ jobs' = MarkCompleted(jobs, poller.runs[n].key, poller.runs[n].analysis)
  /\ poller' = EndRun(n)
  /\ UNCHANGED pollerRest

\* processContent's catch block: the UPDATE to 'failed', then throw; the
\* catch of processQueue logs it and the finally block runs
PollerCatch(n) ==
  /\ poller.runs[n].pc = "pc_catch"
  /\ jobs' = MarkFailed(jobs, poller.runs[n].key, poller.runs[n].error)
  /\ poller' = EndRun(n)
  /\ UNCHANGED pollerRest

\* POST /analyze for an accessible key, within the bound on rows
PollerSubmit(k) ==
  /\ Len(jobs) < MaxPollerRows
  /\ CheckContentAccess(k)
  /\ jobs' = Insert(jobs, k)
  /\ http' = [NoResponse EXCEPT !.op = "submit", !.key = k, !.code = 200]
  /\ UNCHANGED <<contentRows, mode, sideVars, tasks, queueVars, sinceDone,
                 drafts, histVars>>

\* a step of run n: an awaited query or remote call settles
PollerStep(n) ==
  \/ PollerSelect(n)
  \/ PollerMarkProcessing(n)
  \/ PollerGetContent(n)
  \/ \E out \in JobTier2Outcomes : PollerRespond(n, out)
  \/ \E ok \in BOOLEAN : PollerWriteBack(n, ok)
  \/ PollerMarkCompleted(n)
  \/ PollerCatch(n)

PollerNext ==
  \/ \E k \in Keys : PollerSubmit(k)
  \/ \E k \in Keys : DeleteContent(k)
  \/ ProcessQueueStart
  \/ \E n \in RunIds : PollerStep(n)

\* AIService.startQueueProcessor over the job table: the interval keeps
\* firing, and every query and remote call of a run returns or fails
SpecPoller ==
  /\ InitInline
  /\ [][PollerNext]_vars
  /\ WF_vars(ProcessQueueStart)
  /\ \A n \in RunIds : WF_vars(PollerStep(n))

\* ------------------------------------------------------------------ claims

Terminal == {"completed", "failed"}

Rank(status) ==
  CASE status = "pending" -> 0
    [] status = "processing" -> 1
    [] OTHER -> 2

\* C1: the status of every job row only moves forward along
\* pending -> processing -> {completed, failed}, and a row that is completed
\* or failed keeps its status under every later write.
C1_StatusMonotone ==
  [][\A i \in 1 .. Len(jobs) :
       /\ Rank(jobs'[i].status) >= Rank(jobs[i].status)
       /\ jobs[i].status \in Terminal => jobs'[i].status = jobs[i].status]_vars

InFlight == {r \in ReqIds : rq[r].pc \in {"tier1", "tier2"}}

\* C2: at most one generateAnalysis call started by processQueue is in
\* flight at any time, whatever the interleaving of enqueues, completions,
\* timers and clearQueue calls.
C2_SingleFlight == Cardinality(InFlight) <= 1

\* C3: the queue starts requests in the order they were enqueued: ids are
\* handed out in enqueue order, so the start history is increasing.
C3_FifoStart ==
  \A i, j \in 1 .. Len(started) : i < j => started[i] < started[j]

C3_Witness ==
  /\ Len(started) >= 3
  /\ rq[started[3]].pc = "tier1"

\* C4: no request is started by the queue before the cool-down has elapsed
\* since the queue last finished a request.
C4_CoolDownRespected == startGap >= CoolDownMs

\* C5: a clearQueue step rejects every request still pending in the queue
\* with 'Queue cleared' and leaves the queue empty.
C5_ClearRejectsPending ==
  [][clears' # clears =>
       /\ requestQueue' = <<>>
       /\ \A r \in ReqIds : InQueue(requestQueue, r) =>
            /\ rq'[r].promise = "rejected"
            /\ rq'[r].error = QueueCleared]_vars

C5_Witness ==
  /\ clears > 0
  /\ requestQueue = <<>>
  /\ Cardinality({r \in ReqIds : rq[r].error = QueueCleared}) >= 2

DoneDrafts == {d \in DraftIds : drafts[d].pc = "done"}

\* C6: an analysis whose first remote call failed with a 503 calls the
\* second remote tier exactly once and the first tier only that once,
\* whatever the second tier answers.
C6_Tier2ExactlyOnce ==
  \A d \in DoneDrafts :
    drafts[d].first = "e503" => drafts[d].t2 = 1 /\ drafts[d].t1 = 1

\* the classes of answer the strict decode rejects or finds no JSON in
Unparseable == {"truncated", "garbled", "plain", "empty"}
RecoveryBranches == {"repaired", "text", "placeholder"}

Recovered(a, by) ==
  /\ a.tag = "record"
  /\ a.by = by
  /\ a.branch \in RecoveryBranches

C8_TimeoutEscalates ==
  \A t \in TaskIds : tasks[t].first = "timeout" => tasks[t].t2 >= 1

Finished(t) == tasks[t].pc \in {"returned", "threw", "b_completed", "b_failed"}

\* both remote tiers failed for the analysis of task t, its content row found
BothUnreachable(t) ==
  /\ tasks[t].first \in Tier1Errors
  /\ tasks[t].second \in {"none", "fail"}

\* C9: a dispatched job whose content row exists and whose two remote tiers
\* are unreachable ends completed with the local heuristic's record.
C9_LocalFallbackCompletes ==
  \A t \in TaskIds : Finished(t) /\ BothUnreachable(t) =>
    \A i \in 1 .. Len(jobs) : jobs[i].key = tasks[t].key =>
      /\ jobs[i].status = "completed"
      /\ jobs[i].result = LocalFallback

\* C10: with the job row in place, no exception leaves addAIAnalysisJob in
\* inline mode: every call ends by returning a handle.
C10_NoExceptionEscapes ==
  mode = "inline" => \A t \in TaskIds : tasks[t].pc # "threw"

\* C11: in inline mode a failed execution ends with every row of the key
\* failed and carrying the caught error's message, after a single attempt;
\* a call that caught an error never returns normally, and once it has
\* thrown it does nothing more.
C11_InlineFailureRecorded ==
  [][\A t \in TaskIds :
       /\ tasks[t].pc = "pc_threw" /\ tasks'[t].pc = "threw" =>
            /\ tasks'[t].attempts = 1
            /\ tasks'[t].error # "none"
            /\ \A i \in RowsOf(jobs', tasks[t].key) :
                 /\ jobs'[i].status = "failed"
                 /\ jobs'[i].error = tasks[t].error
       /\ tasks'[t].pc = "returned" => tasks'[t].error = "none"
       /\ tasks[t].pc = "threw" => tasks'[t] = tasks[t]]_vars

C11_Witness ==
  \E t \in TaskIds :
    /\ tasks[t].pc = "threw"
    /\ tasks[t].error = Unavailable
    /\ \E i \in RowsOf(jobs, tasks[t].key) :
         jobs[i].status = "failed" /\ jobs[i].error = Unavailable

\* C12: every job row has a result exactly when its status is completed and
\* an error message exactly when its status is failed.
C12_ResultIffCompleted ==
  \A i \in 1 .. Len(jobs) :
    /\ jobs[i].result # NoAnalysis <=> jobs[i].status = "completed"
    /\ jobs[i].error # "none" <=> jobs[i].status = "failed"

\* C13: a job whose analysis succeeded and whose write-back to the content
\* row failed ends with its rows completed and carrying the analysis.
C13_WriteBackFailureNotFatal ==
  \A t \in TaskIds :
    Finished(t) /\ tasks[t].error = WriteBackFailed =>
      \A i \in RowsOf(jobs, tasks[t].key) :
        /\ jobs[i].status = "completed"
        /\ jobs[i].result = tasks[t].analysis

\* a step in which route op answered
Answered(op) == http' # http /\ http'.op = op

\* the request of the last answer named a kind outside the whitelist or a
\* key with no content row
InvalidRequest(h) == h.key[1] \notin Kinds \/ h.key \notin contentRows

\* C14: a submit with an unknown kind or with no content row for its key is
\* refused (400 or 403) and leaves the job table as it was; a row is only
\* ever added for a known kind whose content row exists.
C14_InvalidSubmitRejected ==
  [][/\ Answered("submit") /\ InvalidRequest(http') =>
          http'.code \in {400, 403} /\ jobs' = jobs
     /\ Len(jobs') > Len(jobs) =>
          /\ jobs'[Len(jobs')].key[1] \in Kinds
          /\ jobs'[Len(jobs')].key \in contentRows]_vars

C14_Witness ==
  /\ http.op = "submit"
  /\ http.code = 403
  /\ http.key[1] \in Kinds
  /\ Len(jobs) > 0

\* what poll must answer for a key whose rows end with row
PollAnswers(h, row) ==
  /\ h.code = 200
  /\ h.status = row.status
  /\ h.status \in Statuses
  /\ h.status = "completed" =>
       h.analysis = row.result /\ h.analysis.tag = "record"
  /\ h.status # "completed" => h.analysis = NoAnalysis
  /\ h.status = "failed" => h.error = row.error /\ h.error # "none"
  /\ h.status # "failed" => h.error = "none"

\* the answer h is the one due for the most recently created row of its key
AnswersNewest(h) ==
  \E i \in RowsOf(jobs, h.key) :
    /\ \A j \in RowsOf(jobs, h.key) : j <= i
    /\ PollAnswers(h, jobs[i])

\* C15 as stated: for any key with a job row, poll answers with the status
\* of the newest row of the key, the stored record when completed, only the
\* stored message when failed, and writes nothing.
C15_PollLatestAnyKey ==
  [][Answered("poll") /\ RowsOf(jobs, http'.key) # {} =>
       /\ AnswersNewest(http')
       /\ jobs' = jobs]_vars

\* C15 amended: the same for any key with a job row whose content row
\* exists; every poll leaves the job table as it was.
C15_PollLatestAccessible ==
  [][Answered("poll") =>
       /\ jobs' = jobs
       /\ RowsOf(jobs, http'.key) # {} /\ http'.key \in contentRows =>
            AnswersNewest(http')]_vars

\* a poll answered 'pending' for the newer of two rows of a key whose older
\* row is completed
C15_Witness ==
  /\ http.op = "poll"
  /\ http.code = 200
  /\ http.status = "pending"
  /\ Len(jobs) = 2
  /\ jobs[1].key = http.key /\ jobs[2].key = http.key
  /\ jobs[1].status = "completed"
  /\ jobs[2].status = "pending"

\* C16: a submit for a known kind whose content row exists is never
\* refused; it appends one pending row, answers 200 without an analysis and
\* leaves every row already there as it was.
C16_SubmitAccepted ==
  [][/\ Answered("submit") /\ ~InvalidRequest(http') =>
          /\ http'.code = 200
          /\ http'.analysis = NoAnalysis
          /\ jobs' = Append(jobs, NewRow(http'.key))
     /\ Len(jobs') > Len(jobs) =>
          /\ http'.op = "submit" /\ http'.code = 200
          /\ jobs' = Append(jobs, NewRow(http'.key))
          /\ UNCHANGED tasks]_vars

\* a second row accepted for a key whose first row is being processed
C16_Witness ==
  /\ http.op = "submit"
  /\ http.code = 200
  /\ Len(jobs) = 2
  /\ jobs[1].key = http.key
  /\ jobs[1].status = "processing"
  /\ jobs[2] = NewRow(http.key)

\* C17: no step of the pipeline removes a job row.
C17_RowsNeverDeleted == [][Len(jobs') >= Len(jobs)]_vars

\* the count the snapshot h reports for kind and status st: an entry left
\* out of the report stands for no rows
Reported(h, kind, st) ==
  IF \E e \in h.counts : e[1] = kind /\ e[2] = st
  THEN (CHOOSE e \in h.counts : e[1] = kind /\ e[2] = st)[3]
  ELSE 0

CountRows(js, kind, st) ==
  Cardinality({i \in 1 .. Len(js) : js[i].key[1] = kind /\ js[i].status = st})

C19_ParseFailureLowersConfidence ==
  /\ \A d \in DoneDrafts :
       drafts[d].first \in Unparseable \/ drafts[d].second \in Unparseable =>
         drafts[d].analysis.confidence < ParsedConfidence
  /\ \A r \in ReqIds :
       /\ rq[r].promise = "resolved"
       /\ rq[r].first \in Unparseable \/ rq[r].second \in Unparseable
       => rq[r].value.confidence < ParsedConfidence

\* a is a record returned by the parser of client by
ParsedRecord(a, by) ==
  /\ a.tag = "record"
  /\ a.by = by
  /\ a.keys = AnalysisKeys

\* C20: both parsers are total on strings: whatever text a remote call
\* answers with, the client that received it returns its parser's record
\* with summary, corrections, authenticity and confidence; nothing is thrown,
\* so no other tier and no local fallback runs.
C20_ParserTotal ==
  /\ \A d \in DraftIds :
       /\ drafts[d].first \in Bodies =>
            /\ drafts[d].pc = "done"
            /\ drafts[d].t2 = 0 /\ drafts[d].local = 0
            /\ ParsedRecord(drafts[d].analysis, "gemma3")
       /\ drafts[d].second \in Bodies =>
            /\ drafts[d].pc = "done"
            /\ drafts[d].local = 0
            /\ ParsedRecord(drafts[d].analysis, "aiService")
  /\ \A r \in ReqIds :
       /\ rq[r].first \in Bodies =>
            /\ rq[r].promise = "resolved"
            /\ ParsedRecord(rq[r].value, "gemma3")
       /\ rq[r].second \in Bodies =>
            /\ rq[r].promise = "resolved"
            /\ ParsedRecord(rq[r].value, "aiService")

\* decodable JSON whose record cannot be built, answered by the first tier
\* on the draft route and by the second tier on the queue
C20_Witness ==
  /\ \E d \in DraftIds : drafts[d].first = "nullitem"
  /\ \E r \in ReqIds : rq[r].second = "nullitem"

\* C21: a structured answer cut short after at least one complete entry of
\* its corrections array, on one line or over several, is recovered by
\* Gemma3Service.parseAIResponse to a record whose first correction is that
\* entry (field "title")
EntryEnd(ts) ==
  MinOf({i \in IndexesOf(ts, "}") : i > MinOf(IndexesOf(ts, "["))})
CutAfterEntry(ts) == {SubSeq(ts, 1, n) : n \in EntryEnd(ts) .. Len(ts) - 1}
CutAfterEntryTexts ==
  CutAfterEntry(Stringify(StructuredDoc))
    \cup CutAfterEntry(Lines(Stringify(StructuredDoc)))
FirstField(a) ==
  IF Len(a.corrections.xs) = 0 THEN Undefined
  ELSE Get(a.corrections.xs[1], "field")
C21_TruncationRecovered ==
  (calc.fn = "gemma3" /\ calc.input \in CutAfterEntryTexts)
    => FirstField(calc.output) = Str("title")

\* C22: parsing the JSON text of a well-formed record gives back its summary,
\* corrections, authenticity and confidence, for both parsers
C22_ParseOwnOutput ==
  \A r \in WellFormedRecords :
    (calc.fn \in {"gemma3", "aiService"} /\ calc.input = RecordText(r))
      => /\ calc.output.summary = r.summary
         /\ calc.output.corrections = r.corrections
         /\ calc.output.authenticity = r.authenticity
         /\ calc.output.confidence = r.confidence

\* C23: every record a parser returns has a number from 0 to 1 as its
\* confidence (0 to 10 in tenths)
C23_ConfidenceInRange ==
  calc.fn \in {"gemma3", "aiService"}
    => /\ calc.output.confidence.t = "num"
       /\ calc.output.confidence.n \in 0 .. 10

\* C29: the balance repair turns every prefix of a well-nested run of braces
\* and brackets into a well-nested run
C29_RepairWellNested ==
  (calc.fn = "repair" /\ calc.input \in BracketTexts)
    => WellNested(calc.output)


\* C24: the local analyzer makes no remote call and returns confidence 0.6,
\* source "local_fallback" and a non-empty corrections list: one suggestion
\* for each violated rule and no other, or the generic pair when no rule is
\* violated
ShortField(len, min) == len > 0 /\ len < min
Missing(len) == len <= 0
ViolatedRules(kind, c) ==
  {rule \in {"title_short", "arabic_short", "meaning_short",
             "dua_arabic_required", "dua_meaning_important",
             "blog_body_short"} :
     CASE rule = "title_short" -> ShortField(c.title, MinTitle)
       [] rule = "arabic_short" -> ShortField(c.arabic_text, MinArabic)
       [] rule = "meaning_short" -> ShortField(c.meaning, MinMeaning)
       [] rule = "dua_arabic_required" -> kind = "dua" /\ Missing(c.arabic_text)
       [] rule = "dua_meaning_important" -> kind = "dua" /\ Missing(c.meaning)
       [] OTHER -> kind = "blog" /\ (Missing(c.content) \/
                                     ShortField(c.content, MinBlogBody))}
SuggestionsOf(out) == {out.corrections[i] : i \in 1 .. Len(out.corrections)}
Tier1Failed(d) == drafts[d].first \in Tier1Errors
Tier2Failed(d) == drafts[d].second = "fail"
DraftTierOrder(d) ==
  /\ drafts[d].pc \in {"unused", "tier1", "tier2_inner", "tier2_route", "done"}
  /\ drafts[d].t2 > 0 => Tier1Failed(d)
  /\ drafts[d].local > 0 => Tier1Failed(d) /\ Tier2Failed(d)
  /\ drafts[d].pc = "done" =>
       /\ drafts[d].analysis.tag = "record"
       /\ drafts[d].analysis.by =
            IF ~Tier1Failed(d) THEN "gemma3"
            ELSE IF ~Tier2Failed(d) THEN "aiService"
            ELSE "local"
       /\ (Tier1Failed(d) /\ Tier2Failed(d)) =>
            /\ drafts[d].analysis.source = "local_fallback"
            /\ drafts[d].analysis.confidence = LocalConfidence
C25_DraftAlwaysCompletes ==
  /\ [](\A d \in DraftIds : DraftTierOrder(d))
  /\ \A d \in DraftIds : (drafts[d].pc # "unused") ~> (drafts[d].pc = "done")
C25_Witness ==
  \E d \in DraftIds :
    /\ drafts[d].pc = "done"
    /\ drafts[d].first = "timeout"
    /\ drafts[d].second = "fail"
    /\ drafts[d].local = 1
    /\ drafts[d].analysis = LocalFallback


\* C26: two dispatches for one key over two job rows complete independently:
\* when one execution ended completed and the other failed, one row of the
\* key is completed and the other is failed, each row keeping what its own
\* execution wrote
Outcome(t) ==
  IF tasks[t].pc \in {"returned", "b_completed"} THEN "completed" ELSE "failed"
C26_RowsIndependent ==
  \A t1, t2 \in TaskIds :
    (/\ t1 < t2
     /\ tasks[t1].key = tasks[t2].key
     /\ Finished(t1) /\ Finished(t2)
     /\ Outcome(t1) # Outcome(t2)
     /\ Cardinality(RowsOf(jobs, tasks[t1].key)) = 2)
    => {jobs[i].status : i \in RowsOf(jobs, tasks[t1].key)} = Terminal


\* C27: the promise of every request enqueued by generateAnalysisWithQueue is
\* settled once and eventually, whatever the interleaving with clearQueue:
\* resolved with a record, rejected with the error of its own call, or
\* rejected with 'Queue cleared'
SettledOnce(r) ==
  /\ rq[r].calls <= 1
  /\ rq[r].calls = 1 <=> rq[r].promise # "pending"
  /\ rq[r].promise = "resolved" =>
       rq[r].pc = "done" /\ rq[r].value.tag = "record"
  /\ rq[r].promise = "rejected" =>
       \/ rq[r].pc = "done" /\ rq[r].error = Unavailable
       \/ rq[r].pc = "cleared" /\ rq[r].error = QueueCleared
C27_PromiseSettledOnce ==
  /\ [](\A r \in ReqIds : SettledOnce(r))
  /\ \A r \in ReqIds : (rq[r].pc # "unused") ~> (rq[r].promise # "pending")
C27_Witness ==
  /\ clears > 0
  /\ \E r \in ReqIds : rq[r].promise = "rejected" /\ rq[r].error = QueueCleared
  /\ \E r \in ReqIds : rq[r].promise = "rejected" /\ rq[r].error = Unavailable
  /\ \A r \in 1 .. MaxFairRequests : rq[r].calls = 1


\* C28: getQueueStatus is accurate at every moment: isProcessing is true and
\* currentRequest is not null exactly when a request started by the queue is
\* in flight, and queueLength is the number of requests enqueued and neither
\* started nor rejected
C28_QueueStatusAccurate ==
  /\ GetQueueStatus.isProcessing <=> InFlight # {}
  /\ GetQueueStatus.currentRequest # 0 <=> InFlight # {}
  /\ GetQueueStatus.queueLength =
       Cardinality({r \in ReqIds : rq[r].pc = "queued"})


\* C30: with the polling processor running, at most one processContent started
\* by it runs at a time, isProcessing is set exactly while a run is under
\* way, and every pending job row eventually reaches completed or failed,
\* older rows first
ActiveRuns == {n \in RunIds : poller.runs[n].pc # "free"}
ReachesTerminal(i) ==
  jobs[i].status \notin Terminal /\ jobs'[i].status \in Terminal
C30_PollerDrainsOldestFirst ==
  /\ [](Cardinality(ActiveRuns) <= 1 /\ (poller.isProcessing <=> ActiveRuns # {}))
  /\ [][\A i, j \in 1 .. Len(jobs) :
          (i < j /\ ReachesTerminal(j)) => jobs'[i].status \in Terminal]_vars
  /\ \A i \in 1 .. MaxPollerRows :
       (i <= Len(jobs) /\ jobs[i].status = "pending")
         ~> (i <= Len(jobs) /\ jobs[i].status \in Terminal)


====
